---- MODULE Spec2Model ----
(***************************************************************************)
(* Presence-detection engine of homebridge-unifi-occupancy-lite.           *)
(*                                                                         *)
(*   SpecMatch   the identity matchers of resident.ts, as pure functions   *)
(*   SpecUpdate  Device.updateFromClient of resident.ts, as a pure         *)
(*               function                                                  *)
(*   SpecClient  one UniFiLiteClient session: the endpoint fallback loops  *)
(*               and testConnection of unifi-client.ts, request by request *)
(*   SpecStart   the startup of platform.ts: the constructor, the launch    *)
(*               handler and testConnectionAndStart, probe by probe        *)
(*   SpecRecover the orchestrator with a controller that is unreachable    *)
(*               during startup and reachable from then on, under fair     *)
(*               scheduling of the timer and of the requests               *)
(*   SpecEdge    the orchestrator on fetched lists in which several records *)
(*               match one device or Location, or a record is malformed     *)
(*   Spec        the refresh orchestrator of platform.ts: timer ticks,     *)
(*               refresh() cycles suspended at their awaits, the presence  *)
(*               state of resident.ts and the accessory sinks              *)
(***************************************************************************)
EXTENDS Naturals, Integers, Sequences, FiniteSets, TLC

VARIABLES
    \* SpecMatch
    mDev,       \* the configured identity under test: a Device's, or (mac
                \* and ip) a WifiPoint's
    mCli,       \* the raw record handed to the matcher: a client, or (mac
                \* and ip) an access point
    mRes,       \* [done, value]: the value matchesClient returned
    mApRes,     \* [done, value]: the value matchesAccessPoint returned
    \* SpecUpdate
    uIn,        \* a Device (its state and configuration) and the arguments
                \* of updateFromClient
    uOut,       \* [done, dev]: the Device after updateFromClient
    \* SpecClient
    useSiteManagerApi,  \* config.useSiteManagerApi of the session
    site,               \* config.site
    call,               \* the call in progress or last finished
    reqLog,             \* the requests this call issued, in order, with outcomes
    prevOk,             \* history: per resource, the endpoint that last succeeded
    nCalls,             \* calls started in this session
    \* SpecStart
    config,     \* the platform configuration as the host hands it over
    boot,       \* the startup: where it stands, the probes issued, the
                \* session client, the handlers, the timer, the refresh()
                \* calls made
    \* SpecRecover
    world,      \* the client list the controller reports once reachable
    \* Spec
    phase,      \* where testConnectionAndStart stands
    clock,      \* the time new Date() reads: refresh() executions started
    cycles,     \* the refresh() executions, each at its await or at rest
    devices,    \* per Device: isOnline, lastSeen, currentAccessPoint, trafficBytes
    isHome,     \* per Resident: isHome
    wifiMac,    \* per WifiPoint: mac
    hasResidents,   \* per WifiPoint: hasResidents
    sinkGlobal, \* OccupancyDetected of the global presence accessory
    sinkWifi,   \* per WifiPoint: OccupancyDetected of its accessory
    ev          \* history: the step that led to this state

matchVars  == <<mDev, mCli, mRes, mApRes, uIn, uOut>>
clientVars == <<site, call, reqLog, prevOk, nCalls>>
platVars   == <<phase, clock, cycles, devices, isHome, wifiMac, hasResidents,
                sinkGlobal, sinkWifi, ev>>
startVars  == <<config, boot, world>>
vars       == <<useSiteManagerApi, matchVars, clientVars, platVars, startVars>>

-----------------------------------------------------------------------------
(* JavaScript values *)

\* An absent property (undefined).
Undefined == "<undefined>"

\* JavaScript truthiness of a string-or-undefined property.
Truthy(v) == v # Undefined /\ v # ""

\* String.prototype.toLowerCase on the strings the model uses: letters are
\* folded, separators and digits are kept.
ToLowerCase(s) ==
    CASE s = "AA:BB:CC:DD:EE:FF" -> "aa:bb:cc:dd:ee:ff"
      [] s = "AA-BB-CC-DD-EE-FF" -> "aa-bb-cc-dd-ee-ff"
      [] s = "11:22:33:44:55:6A" -> "11:22:33:44:55:6a"
      [] s = "Johns-iPhone"      -> "johns-iphone"
      [] s = "JOHNS-IPHONE"      -> "johns-iphone"
      [] s = "IPAD"              -> "ipad"
      [] OTHER                   -> s

-----------------------------------------------------------------------------
(* resident.ts: Device.matchesClient, WifiPoint.matchesAccessPoint *)

\* matchesClient comparing the fields without testing that they are set.
matchesClientUnguarded(device, client) ==
    \/ ToLowerCase(device.mac) = ToLowerCase(client.mac)
    \/ device.ip = client.ip
    \/ ToLowerCase(device.hostname) = ToLowerCase(client.hostname)
    \/ ToLowerCase(device.hostname) = ToLowerCase(client.name)

\* matchesClient comparing MAC and hostname as written, without toLowerCase.
matchesClientExact(device, client) ==
    \/ Truthy(device.mac) /\ Truthy(client.mac) /\ device.mac = client.mac
    \/ Truthy(device.ip) /\ Truthy(client.ip) /\ device.ip = client.ip
    \/ Truthy(device.hostname) /\ Truthy(client.hostname)
          /\ device.hostname = client.hostname
    \/ Truthy(device.hostname) /\ Truthy(client.name)
          /\ device.hostname = client.name

\* Device.matchesClient: four tests in sequence, each returning true at once.
matchesClient(device, client) ==
    IF Truthy(device.mac) /\ Truthy(client.mac)
          /\ ToLowerCase(device.mac) = ToLowerCase(client.mac)
    THEN TRUE
    ELSE IF Truthy(device.ip) /\ Truthy(client.ip) /\ device.ip = client.ip
    THEN TRUE
    ELSE IF Truthy(device.hostname) /\ Truthy(client.hostname)
          /\ ToLowerCase(device.hostname) = ToLowerCase(client.hostname)
    THEN TRUE
    ELSE IF Truthy(device.hostname) /\ Truthy(client.name)
          /\ ToLowerCase(device.hostname) = ToLowerCase(client.name)
    THEN TRUE
    ELSE FALSE

\* WifiPoint.matchesAccessPoint: MAC test, then IP test.
matchesAccessPoint(wifiPoint, accessPoint) ==
    IF Truthy(wifiPoint.mac) /\ Truthy(accessPoint.mac)
          /\ ToLowerCase(wifiPoint.mac) = ToLowerCase(accessPoint.mac)
    THEN TRUE
    ELSE IF Truthy(wifiPoint.ip) /\ Truthy(accessPoint.ip)
          /\ wifiPoint.ip = accessPoint.ip
    THEN TRUE
    ELSE FALSE

-----------------------------------------------------------------------------
(* unifi-client.ts: one HTTP exchange *)

\* JSON values, by shape: an array (tag names its contents), an object, or
\* undefined.
JArr(tag) == [kind |-> "array", tag |-> tag]
JObj(tag) == [kind |-> "object", tag |-> tag]
JUndef    == [kind |-> "undefined", tag |-> ""]

\* What the network can do to one request: the socket errors, the status is
\* >= 400, the body of a < 400 answer does not parse, or it parses to `body`,
\* whose property `data` may be undefined.
Responses ==
    { [kind |-> "transport",  body |-> JUndef,     data |-> JUndef],
      [kind |-> "http_error", body |-> JUndef,     data |-> JUndef],
      [kind |-> "bad_body",   body |-> JUndef,     data |-> JUndef],
      [kind |-> "ok",         body |-> JArr("A"),  data |-> JUndef],
      [kind |-> "ok",         body |-> JObj("env"), data |-> JArr("B")],
      [kind |-> "ok",         body |-> JObj("O"),  data |-> JUndef] }

\* request(): the promise rejects on a socket error (line 135), on a status
\* >= 400 (line 116) and when JSON.parse throws (line 130).
Rejects(resp) == resp.kind \in {"transport", "http_error", "bad_body"}

UnwrapBody(resp) == resp.body

\* request(): jsonData.data !== undefined ? jsonData.data : jsonData
Unwrap(resp) == IF resp.data # JUndef THEN resp.data ELSE resp.body

-----------------------------------------------------------------------------
(* unifi-client.ts: the endpoint lists *)

ClientEndpoints(s) ==
    << "/api/s/" \o s \o "/clients/active",
       "/api/s/" \o s \o "/stat/alluser",
       "/api/s/" \o s \o "/stat/sta",
       "/api/stat/sta",
       "/api/clients/active",
       "/api/stat/alluser",
       "/api/s/default/clients/active",
       "/api/s/default/stat/alluser",
       "/api/s/default/stat/sta" >>

DeviceEndpoints(s) ==
    << "/api/s/" \o s \o "/stat/device",
       "/api/s/" \o s \o "/device",
       "/api/stat/device",
       "/api/device",
       "/api/s/default/stat/device",
       "/api/s/default/device" >>

SiteEndpoints == << "/api/stat/sites", "/api/sites", "/api/self/sites" >>

\* getDevices() with the Site Manager API: one request, no fallback.
CloudEndpoints == << "/v1/devices?hostIds[]=host" >>

Endpoints(loop, s) ==
    CASE loop = "clients" -> ClientEndpoints(s)
      [] loop = "devices" -> DeviceEndpoints(s)
      [] loop = "sites"   -> SiteEndpoints
      [] OTHER            -> CloudEndpoints

\* What a local fallback loop returns once every endpoint has rejected:
\* [] for clients and devices, [{ name: 'default' }] for sites.
Exhausted(loop) ==
    IF loop = "sites" THEN JArr("default-site") ELSE JArr("")

\* devices.flatMap(host => host.devices?.filter(...) || []) of the Site
\* Manager branches: an array when the fetched value is one.
FlatMapNetwork(hosts) == JArr("network(" \o hosts.tag \o ")")

-----------------------------------------------------------------------------
(* SpecClient: a session of calls on one UniFiLiteClient *)

MaxCalls == 3

NoneOk == [clients |-> 0, devices |-> 0]

NoCall == [op |-> "none", loop |-> "none", idx |-> 0, status |-> "idle",
           result |-> JUndef, probe |-> FALSE, known |-> NoneOk,
           kinds |-> {}]

FirstLoop(op) ==
    IF useSiteManagerApi THEN "cloud"
    ELSE CASE op = "getClients"        -> "clients"
           [] op = "getNetworkDevices" -> "devices"
           [] OTHER                    -> "sites"

Begin(op) ==
    /\ call.status # "running"
    /\ nCalls < MaxCalls
    /\ nCalls' = nCalls + 1
    /\ call' = [op |-> op, loop |-> FirstLoop(op), idx |-> 1,
                status |-> "running", result |-> JUndef, probe |-> FALSE,
                known |-> prevOk, kinds |-> {}]
    /\ reqLog' = <<>>
    /\ UNCHANGED <<useSiteManagerApi, site, prevOk>>
    /\ UNCHANGED <<matchVars, platVars, startVars>>

\* The code after an inner call of the running operation has settled:
\* `raised` when its promise rejected, else `value`.
Settle(c, raised, value) ==
    IF c.op = "testConnection"
    THEN IF ~raised
         THEN [c EXCEPT !.status = "returned", !.probe = TRUE]
         ELSE IF useSiteManagerApi \/ c.loop = "clients"
         THEN [c EXCEPT !.status = "returned", !.probe = FALSE]
         ELSE [c EXCEPT !.idx = 1,
                        !.loop = IF c.loop = "sites" THEN "devices"
                                 ELSE "clients"]
    ELSE IF raised
         THEN [c EXCEPT !.status = "raised"]
         ELSE [c EXCEPT !.status = "returned", !.result = value]

\* A resolved request: the local loops return the value at once; the Site
\* Manager branches of getClients / getNetworkDevices flatMap it, which throws
\* when it is not an array; getDevices (testConnection) returns it as it is.
Resolved(c, value) ==
    IF c.loop = "cloud" /\ c.op # "testConnection"
    THEN Settle(c, value.kind # "array", FlatMapNetwork(value))
    ELSE Settle(c, FALSE, value)

RejectedRethrow(c) ==
    IF c.loop # "cloud" /\ c.idx < Len(Endpoints(c.loop, site))
    THEN [c EXCEPT !.idx = c.idx + 1]
    ELSE [c EXCEPT !.status = "raised"]

\* A rejected request: the local loops catch it and go on to the next
\* endpoint, returning the default after the last; the Site Manager branch
\* has no catch.
Rejected(c) ==
    IF c.loop = "cloud"
    THEN Settle(c, TRUE, JUndef)
    ELSE IF c.idx < Len(Endpoints(c.loop, site))
    THEN [c EXCEPT !.idx = c.idx + 1]
    ELSE Settle(c, FALSE, Exhausted(c.loop))

\* The index of the endpoint the running loop requests next.
NextIndex(c) == c.idx

\* await this.get(endpoint), and the code up to the next await or return.
RequestStep ==
    /\ call.status = "running"
    /\ \E resp \in Responses :
         LET i  == NextIndex(call)
             ep == Endpoints(call.loop, site)[i]
             c1 == [call EXCEPT !.kinds = IF Rejects(resp)
                                           THEN @ \cup {resp.kind} ELSE @]
         IN /\ reqLog' = Append(reqLog, [endpoint |-> ep, index |-> i,
                                         loop |-> call.loop,
                                         rejected |-> Rejects(resp),
                                         body |-> resp.body,
                                         data |-> resp.data])
            /\ call' = IF Rejects(resp) THEN Rejected(c1)
                       ELSE Resolved(c1, Unwrap(resp))
            /\ prevOk' = IF ~Rejects(resp) /\ call.loop \in {"clients", "devices"}
                         THEN [prevOk EXCEPT ![call.loop] = i]
                         ELSE prevOk
    /\ UNCHANGED <<useSiteManagerApi, site, nCalls>>
    /\ UNCHANGED <<matchVars, platVars, startVars>>

GetClients        == Begin("getClients")
GetNetworkDevices == Begin("getNetworkDevices")
TestConnection    == Begin("testConnection")

ClientInit ==
    /\ useSiteManagerApi \in BOOLEAN
    /\ site \in {"default", "home"}
    /\ call = NoCall
    /\ reqLog = <<>>
    /\ prevOk = NoneOk
    /\ nCalls = 0




-----------------------------------------------------------------------------
(* SpecMatch: matchesClient applied to every device/record pair *)

MacValues  == {Undefined, "aa:bb:cc:dd:ee:ff", "AA:BB:CC:DD:EE:FF",
               "AA-BB-CC-DD-EE-FF", "11:22:33:44:55:66"}
IpValues   == {Undefined, "192.168.1.10", "192.168.1.11"}
HostValues == {Undefined, "Johns-iPhone", "johns-iphone", "ipad"}

DeviceConfigs ==
    [mac : MacValues, ip : IpValues, hostname : HostValues]

ClientRecords ==
    [mac : MacValues, ip : IpValues, hostname : HostValues,
     name : {Undefined, "JOHNS-IPHONE"}]

NoClient == [mac |-> Undefined, ip |-> Undefined, hostname |-> Undefined,
             name |-> Undefined]

MatchIdle == [done |-> FALSE, value |-> FALSE]

MatchInit ==
    /\ mDev \in DeviceConfigs
    /\ mCli \in ClientRecords
    /\ mRes = MatchIdle
    /\ mApRes = MatchIdle

\* device.matchesClient(client)
CallMatchesClient ==
    /\ ~mRes.done
    /\ mRes' = [done |-> TRUE, value |-> matchesClient(mDev, mCli)]
    /\ UNCHANGED <<mDev, mCli, mApRes, uIn, uOut>>
    /\ UNCHANGED <<useSiteManagerApi, clientVars, platVars, startVars>>

\* wifiPoint.matchesAccessPoint(accessPoint), for the wifi point with the mac
\* and ip of mDev and the access point with the mac and ip of mCli.
CallMatchesAccessPoint ==
    /\ ~mApRes.done
    /\ mApRes' = [done |-> TRUE, value |-> matchesAccessPoint(mDev, mCli)]
    /\ UNCHANGED <<mDev, mCli, mRes, uIn, uOut>>
    /\ UNCHANGED <<useSiteManagerApi, clientVars, platVars, startVars>>

-----------------------------------------------------------------------------
(* platform.ts, resident.ts: the configuration and the controller's data *)

ApLiving  == "11:22:33:44:55:66"
ApOffice  == "22:33:44:55:66:77"
ApOffice2 == "33:44:55:66:77:88"

\* config.residents
Residents == << "John", "Jane" >>

\* config.residents[].devices, in configuration order; owner is the index of
\* the resident. An unset minTrafficAmount is falsy, like 0.
DeviceCfgs ==
    << [name |-> "John's iPhone", owner |-> 1, mac |-> "AA:BB:CC:DD:EE:FF",
        ip |-> Undefined, hostname |-> Undefined, minTrafficAmount |-> 0],
       [name |-> "John's laptop", owner |-> 1, mac |-> Undefined,
        ip |-> "192.168.1.10", hostname |-> Undefined, minTrafficAmount |-> 1],
       [name |-> "Jane's iPad", owner |-> 2, mac |-> Undefined,
        ip |-> Undefined, hostname |-> "ipad", minTrafficAmount |-> 1],
       [name |-> "Jane's tag", owner |-> 2, mac |-> Undefined,
        ip |-> Undefined, hostname |-> Undefined, minTrafficAmount |-> 0] >>

\* config.wifiPoints
WifiPoints ==
    << [name |-> "Living Room", mac |-> ApLiving, ip |-> Undefined],
       [name |-> "Office", mac |-> Undefined, ip |-> "192.168.1.2"] >>

ResidentIds == 1..Len(Residents)
DeviceIds   == 1..Len(DeviceCfgs)
WifiIds     == 1..Len(WifiPoints)

\* Raw client records as the controller lists them.
ClientRec(mac, ip, name, ap, sw) ==
    [mac |-> mac, ip |-> ip, hostname |-> Undefined, name |-> name,
     ap_mac |-> ap, sw_mac |-> sw, uplink_mac |-> Undefined,
     access_point_mac |-> Undefined]

NoRecord == ClientRec(Undefined, Undefined, Undefined, Undefined, Undefined)

cPhone  == ClientRec("aa:bb:cc:dd:ee:ff", "192.168.1.20", Undefined,
                     ApLiving, Undefined)
cPhone2 == ClientRec("AA:BB:CC:DD:EE:FF", "192.168.1.21", Undefined,
                     ApOffice, Undefined)
cLaptop == ClientRec("0c:0c:0c:0c:0c:0c", "192.168.1.10", Undefined,
                     Undefined, ApOffice)
cIpad   == ClientRec("0d:0d:0d:0d:0d:0d", "192.168.1.30", "IPAD",
                     Undefined, Undefined)

\* A second record with the laptop's IP address, on another access point.
cLaptop2 == ClientRec("0e:0e:0e:0e:0e:0e", "192.168.1.10", Undefined,
                      ApLiving, Undefined)

\* A field of a fetched record that is set but is not a string (a number in
\* the JSON body): toLowerCase is not a function of it.
NotAString == "<number>"

\* A malformed client record: its mac is a number.
cBroken == ClientRec(NotAString, Undefined, Undefined, Undefined, Undefined)

\* Device.matchesClient throws a TypeError: a test calls toLowerCase on a
\* client field that is not a string, no earlier test having returned true.
matchesClientThrows(device, client) ==
    IF Truthy(device.mac) /\ client.mac = NotAString
    THEN TRUE
    ELSE IF Truthy(device.mac) /\ Truthy(client.mac)
          /\ ToLowerCase(device.mac) = ToLowerCase(client.mac)
    THEN FALSE
    ELSE IF Truthy(device.ip) /\ Truthy(client.ip) /\ device.ip = client.ip
    THEN FALSE
    ELSE IF Truthy(device.hostname) /\ client.hostname = NotAString
    THEN TRUE
    ELSE IF Truthy(device.hostname) /\ Truthy(client.hostname)
          /\ ToLowerCase(device.hostname) = ToLowerCase(client.hostname)
    THEN FALSE
    ELSE Truthy(device.hostname) /\ client.name = NotAString

\* The client lists a fetch can return.
ClientLists ==
    { <<>>, <<cPhone, cPhone2, cLaptop>>, <<cIpad>> }

\* The access-point lists a fetch can return.
ApLists ==
    { << [mac |-> ApLiving, ip |-> "192.168.1.3"],
         [mac |-> ApOffice, ip |-> "192.168.1.2"] >>,
      << [mac |-> ApOffice2, ip |-> "192.168.1.2"] >> }

\* A traffic sample, or null.
NoSample == [present |-> FALSE, rx_bytes |-> 0, tx_bytes |-> 0]
Sample(rx, tx) == [present |-> TRUE, rx_bytes |-> rx, tx_bytes |-> tx]

\* What getClientTrafficLast15Min can return with the local backend.
TrafficResults == { NoSample, Sample(0, 0), Sample(1000, 24) }

-----------------------------------------------------------------------------
(* resident.ts: Device, Resident, WifiPoint *)

\* Device after construction.
NewDevice == [isOnline |-> FALSE, lastSeen |-> 0,
              currentAccessPoint |-> Undefined, trafficBytes |-> 0]

\* d || c || b || a
Or4LastFirst(a, b, c, d) ==
    IF Truthy(d) THEN d ELSE IF Truthy(c) THEN c ELSE IF Truthy(b) THEN b ELSE a

\* a || b || c || d
Or4(a, b, c, d) ==
    IF Truthy(a) THEN a ELSE IF Truthy(b) THEN b ELSE IF Truthy(c) THEN c ELSE d

\* Whether minTrafficAmount is set and positive.
NeedsTraffic(cfg) == cfg.minTrafficAmount # 0 /\ cfg.minTrafficAmount > 0

\* updateFromClient applying the threshold only when a sample was obtained.
updateFromClientNullPasses(dev, cfg, client, trafficData, now) ==
    LET bytes == IF trafficData.present
                 THEN trafficData.rx_bytes + trafficData.tx_bytes
                 ELSE dev.trafficBytes
    IN [isOnline |-> IF NeedsTraffic(cfg) /\ trafficData.present
                     THEN bytes >= 1024 * cfg.minTrafficAmount
                     ELSE TRUE,
        lastSeen |-> now,
        currentAccessPoint |-> Or4(client.ap_mac, client.sw_mac,
                                   client.uplink_mac, client.access_point_mac),
        trafficBytes |-> bytes]

\* updateFromClient with the threshold taken in units of 1000 bytes.
updateFromClientDecimalKB(dev, cfg, client, trafficData, now) ==
    LET bytes == IF trafficData.present
                 THEN trafficData.rx_bytes + trafficData.tx_bytes
                 ELSE dev.trafficBytes
    IN [isOnline |-> IF NeedsTraffic(cfg)
                     THEN bytes >= 1000 * cfg.minTrafficAmount
                     ELSE TRUE,
        lastSeen |-> now,
        currentAccessPoint |-> Or4(client.ap_mac, client.sw_mac,
                                   client.uplink_mac, client.access_point_mac),
        trafficBytes |-> bytes]

\* Device.updateFromClient; trafficBytes / 1024 >= minTrafficAmount is
\* computed without the division.
updateFromClient(dev, cfg, client, trafficData, now) ==
    LET bytes == IF trafficData.present
                 THEN trafficData.rx_bytes + trafficData.tx_bytes
                 ELSE dev.trafficBytes
    IN [isOnline |-> IF NeedsTraffic(cfg)
                     THEN bytes >= 1024 * cfg.minTrafficAmount
                     ELSE TRUE,
        lastSeen |-> now,
        currentAccessPoint |-> Or4(client.ap_mac, client.sw_mac,
                                   client.uplink_mac, client.access_point_mac),
        trafficBytes |-> bytes]

\* Resident.updatePresence
updatePresence(devs, r) ==
    \E d \in DeviceIds : DeviceCfgs[d].owner = r /\ devs[d].isOnline

\* getDevicesAtAccessPoint without its device.isOnline test.
getDevicesAtAccessPointAnyState(devs, r, accessPointMac) ==
    { d \in DeviceIds : /\ DeviceCfgs[d].owner = r
                        /\ devs[d].currentAccessPoint = accessPointMac }

\* Resident.getDevicesAtAccessPoint
getDevicesAtAccessPoint(devs, r, accessPointMac) ==
    { d \in DeviceIds : /\ DeviceCfgs[d].owner = r
                        /\ devs[d].isOnline
                        /\ devs[d].currentAccessPoint = accessPointMac }

\* WifiPoint.updatePresence without its `if (!this.mac)` guard.
wifiUpdatePresenceUnguarded(mac, devs) ==
    \E r \in ResidentIds : getDevicesAtAccessPoint(devs, r, mac) # {}

\* WifiPoint.updatePresence
wifiUpdatePresence(mac, devs) ==
    IF ~Truthy(mac) THEN FALSE
    ELSE \E r \in ResidentIds : getDevicesAtAccessPoint(devs, r, mac) # {}

-----------------------------------------------------------------------------
(* The accessory handlers: getStatusSummary *)

\* Array.prototype.join
RECURSIVE join(_, _)
join(names, separator) ==
    IF names = <<>> THEN ""
    ELSE IF Len(names) = 1 THEN names[1]
    ELSE names[1] \o separator \o join(Tail(names), separator)

\* The names of all residents from r on, in configuration order.
RECURSIVE NamesOfAll(_, _)
NamesOfAll(keep, r) ==
    IF r > Len(Residents) THEN <<>>
    ELSE <<Residents[r]>> \o NamesOfAll(keep, r + 1)

\* this.residents.filter(...).map(resident => resident.name): the names of
\* the residents from r on that the filter keeps, in configuration order.
RECURSIVE NamesOf(_, _)
NamesOf(keep, r) ==
    IF r > Len(Residents) THEN <<>>
    ELSE (IF r \in keep THEN <<Residents[r]>> ELSE <<>>)
            \o NamesOf(keep, r + 1)

\* GlobalPresenceAccessoryHandler.getStatusSummary
globalGetStatusSummary(home) ==
    LET anyoneHomeNow == \E r \in ResidentIds : home[r]
        homeResidents == NamesOf({ r \in ResidentIds : home[r] }, 1)
    IN IF anyoneHomeNow
       THEN "Home: " \o join(homeResidents, ", ")
       ELSE "Nobody home"

\* WifiPointAccessoryHandler.getStatusSummary
wifiGetStatusSummary(has, mac, devs) ==
    IF has
    THEN LET at == IF Truthy(mac) THEN mac ELSE ""
             residentsAtLocation ==
                 NamesOf({ r \in ResidentIds :
                              getDevicesAtAccessPoint(devs, r, at) # {} }, 1)
         IN "Present: " \o join(residentsAtLocation, ", ")
    ELSE "No one present"

-----------------------------------------------------------------------------
(* SpecUpdate: updateFromClient applied to every device/record/sample *)

\* The time new Date() reads at the call.
UpdateNow == 5

\* The Device before the call: as constructed, or as an earlier match and
\* sample left it.
UpdateDevices ==
    { NewDevice,
      [isOnline |-> FALSE, lastSeen |-> 1, currentAccessPoint |-> Undefined,
       trafficBytes |-> 60000] }

\* config minTrafficAmount: unset or 0, 1 KB, 50 KB.
UpdateThresholds == {0, 1, 50}

\* The four association fields of a client record: absent, empty or set.
UpdateClients ==
    [ap_mac : {Undefined, "", "ap"},
     sw_mac : {Undefined, "", "sw"},
     uplink_mac : {Undefined, "", "uplink"},
     access_point_mac : {Undefined, "", "generic"}]

\* The traffic samples: null, or received and sent bytes.
UpdateSamples ==
    {NoSample} \cup
    { Sample(rx, tx) : rx \in {0, 30000, 40000, 51199},
                       tx \in {0, 1, 12000} }

UpdateIdleIn ==
    [dev |-> NewDevice, minTrafficAmount |-> 0,
     client |-> [ap_mac |-> Undefined, sw_mac |-> Undefined,
                 uplink_mac |-> Undefined, access_point_mac |-> Undefined],
     trafficData |-> NoSample]

UpdateIdleOut == [done |-> FALSE, dev |-> NewDevice]

UpdateInit ==
    /\ uIn \in [dev : UpdateDevices, minTrafficAmount : UpdateThresholds,
                client : UpdateClients, trafficData : UpdateSamples]
    /\ uOut = UpdateIdleOut

\* device.updateFromClient(client, trafficData)
CallUpdateFromClient ==
    /\ ~uOut.done
    /\ uOut' = [done |-> TRUE,
                dev |-> updateFromClient(uIn.dev, uIn, uIn.client,
                                         uIn.trafficData, UpdateNow)]
    /\ UNCHANGED <<mDev, mCli, mRes, mApRes, uIn>>
    /\ UNCHANGED <<useSiteManagerApi, clientVars, platVars, startVars>>

-----------------------------------------------------------------------------
(* platform.ts: refresh() *)

MaxCycles == 3

CycleIds == 1..MaxCycles

IdleCycle == [pc |-> "idle", clients |-> <<>>, accessPoints |-> <<>>,
              at |-> 0, match |-> NoRecord,
              clientsFailed |-> FALSE, apsFailed |-> FALSE]

\* What the last step did to a refresh(): "no" unless it ended one, and then
\* how its two fetches had fared; and the devices the step updated from a
\* client record with a traffic sample of null (updateFromClient with
\* trafficData = null, minTrafficAmount > 0).
Event(ended, cyc, nullSample) ==
    [ended |-> ended,
     clientsFailed |-> ended # "no" /\ cyc.clientsFailed,
     apsFailed |-> ended # "no" /\ cyc.apsFailed,
     nullSample |-> nullSample]

\* A device loop without the reset at its head.
ResetDeviceNever(dev) == dev

\* A reset that also forgets the traffic seen and the time of the last match.
ResetDeviceAll(dev) ==
    [isOnline |-> FALSE, lastSeen |-> 0, currentAccessPoint |-> Undefined,
     trafficBytes |-> 0]

\* The reset at the head of the device loop (lines 265-266).
ResetDevice(dev) ==
    [dev EXCEPT !.isOnline = FALSE, !.currentAccessPoint = Undefined]

\* A find that returns the last matching client.
FindClientLast(cfg, clients) ==
    LET hits == { i \in 1..Len(clients) : matchesClient(cfg, clients[i]) }
    IN IF hits = {} THEN 0 ELSE CHOOSE i \in hits : \A j \in hits : i >= j

\* clients.find(client => device.matchesClient(client)): its index, or 0.
FindClient(cfg, clients) ==
    LET hits == { i \in 1..Len(clients) : matchesClient(cfg, clients[i]) }
    IN IF hits = {} THEN 0 ELSE CHOOSE i \in hits : \A j \in hits : i <= j

\* clients.find(client => device.matchesClient(client)) throws: it reaches a
\* record on which matchesClient throws before any client that matches.
FindClientThrows(cfg, clients) ==
    \E i \in 1..Len(clients) :
        /\ matchesClientThrows(cfg, clients[i])
        /\ \A j \in 1..(i - 1) : ~matchesClient(cfg, clients[j])

\* accessPoints.find(ap => wifiPoint.matchesAccessPoint(ap)): its index, or 0.
FindAccessPoint(wp, accessPoints) ==
    LET hits == { i \in 1..Len(accessPoints) :
                     matchesAccessPoint(wp, accessPoints[i]) }
    IN IF hits = {} THEN 0 ELSE CHOOSE i \in hits : \A j \in hits : i <= j

\* Once the last device of a resident is done: resident.updatePresence().
AfterDevice(devs, home, i) ==
    IF i = Len(DeviceCfgs) \/ DeviceCfgs[i + 1].owner # DeviceCfgs[i].owner
    THEN [home EXCEPT ![DeviceCfgs[i].owner] = updatePresence(devs, DeviceCfgs[i].owner)]
    ELSE home

\* The device loop from device i up to its next await (at <= Len(DeviceCfgs),
\* the device reset and matched with `match`, its traffic sample awaited) or
\* to its end. With the Site Manager API getClientTrafficLast15Min resolves
\* to null without a request, so the loop is not suspended there.
RECURSIVE RunLoop(_, _, _, _, _, _)
RunLoop(devs, home, clients, now, i, nulls) ==
    IF i > Len(DeviceCfgs)
    THEN [devs |-> devs, home |-> home, at |-> i, match |-> NoRecord,
          nulls |-> nulls, threw |-> FALSE]
    ELSE LET reset == [devs EXCEPT ![i] = ResetDevice(devs[i])]
             k     == FindClient(DeviceCfgs[i], clients)
         IN IF FindClientThrows(DeviceCfgs[i], clients)
            THEN [devs |-> reset, home |-> home, at |-> i, match |-> NoRecord,
                  nulls |-> nulls, threw |-> TRUE]
            ELSE IF k = 0
            THEN RunLoop(reset, AfterDevice(reset, home, i), clients, now,
                         i + 1, nulls)
            ELSE IF NeedsTraffic(DeviceCfgs[i]) /\ ~useSiteManagerApi
            THEN [devs |-> reset, home |-> home, at |-> i, match |-> clients[k],
                  nulls |-> nulls, threw |-> FALSE]
            ELSE LET upd == [reset EXCEPT ![i] =
                                updateFromClient(reset[i], DeviceCfgs[i],
                                                 clients[k], NoSample, now)]
                 IN RunLoop(upd, AfterDevice(upd, home, i), clients, now, i + 1,
                            IF NeedsTraffic(DeviceCfgs[i]) THEN nulls \cup {i}
                            ELSE nulls)

\* The access-point mapping of the wifi points (lines 307-313).
MapAccessPoints(macs, accessPoints) ==
    [w \in WifiIds |->
        LET k == FindAccessPoint([WifiPoints[w] EXCEPT !.mac = macs[w]],
                                 accessPoints)
        IN IF k = 0 THEN macs[w] ELSE accessPoints[k].mac]

\* GlobalPresenceAccessoryHandler.updatePresenceState with every resident
\* required to be home.
anyoneHomeAll(home) == \A r \in ResidentIds : home[r]

\* GlobalPresenceAccessoryHandler.updatePresenceState:
\* this.residents.some(resident => resident.isHome).
anyoneHome(home) == \E r \in ResidentIds : home[r]

\* await this.refresh() of testConnectionAndStart is followed by
\* refreshPeriodically().
PhaseAfter(c) == IF phase = "firstRefresh" /\ c = 1 THEN "polling" ELSE phase

\* The rest of refresh() once the device loop has ended: the access-point
\* mapping and the accessory handlers (updateResidents, refresh).
Complete(c, cyc, devs, home, nulls) ==
    LET macs == MapAccessPoints(wifiMac, cyc.accessPoints)
        occ  == [w \in WifiIds |-> wifiUpdatePresence(macs[w], devs)]
    IN /\ devices' = devs
       /\ isHome' = home
       /\ wifiMac' = macs
       /\ hasResidents' = occ
       /\ sinkGlobal' = anyoneHome(home)
       /\ sinkWifi' = occ
       /\ cycles' = [cycles EXCEPT ![c] = IdleCycle]
       /\ phase' = PhaseAfter(c)
       /\ ev' = Event("completed", cyc, nulls)

\* A catch of refresh() that reports everybody away on the sinks.
AbandonClearsSinks(c, cyc) ==
    /\ cycles' = [cycles EXCEPT ![c] = IdleCycle]
    /\ phase' = PhaseAfter(c)
    /\ ev' = Event("abandoned", cyc, {})
    /\ sinkGlobal' = FALSE
    /\ sinkWifi' = [w \in WifiIds |-> FALSE]
    /\ UNCHANGED <<devices, isHome, wifiMac, hasResidents>>

\* A catch of refresh() that lets the failure reach the timer, which stops.
AbandonStopsTimer(c, cyc) ==
    /\ cycles' = [cycles EXCEPT ![c] = IdleCycle]
    /\ phase' = "off"
    /\ ev' = Event("abandoned", cyc, {})
    /\ UNCHANGED <<devices, isHome, wifiMac, hasResidents, sinkGlobal, sinkWifi>>

\* The catch of refresh() (line 332): the cycle is given up where it stands.
Abandon(c, cyc) ==
    /\ cycles' = [cycles EXCEPT ![c] = IdleCycle]
    /\ phase' = PhaseAfter(c)
    /\ ev' = Event("abandoned", cyc, {})
    /\ UNCHANGED <<devices, isHome, wifiMac, hasResidents, sinkGlobal, sinkWifi>>

\* The catch of refresh() reached from inside the device loop: the cycle is
\* given up with the devices and residents as the loop has left them.
Throw(c, cyc, devs, home) ==
    /\ devices' = devs
    /\ isHome' = home
    /\ cycles' = [cycles EXCEPT ![c] = IdleCycle]
    /\ phase' = PhaseAfter(c)
    /\ ev' = Event("abandoned", cyc, {})
    /\ UNCHANGED <<wifiMac, hasResidents, sinkGlobal, sinkWifi>>

\* refresh() from device i of the loop to its next await or its end.
Continue(c, cyc, devs, home, i, nulls) ==
    LET r == RunLoop(devs, home, cyc.clients, clock, i, nulls)
    IN IF r.threw
       THEN Throw(c, cyc, r.devs, r.home)
       ELSE IF r.at <= Len(DeviceCfgs)
       THEN /\ devices' = r.devs
            /\ isHome' = r.home
            /\ cycles' = [cycles EXCEPT ![c] =
                             [cyc EXCEPT !.pc = "traffic", !.at = r.at,
                                         !.match = r.match]]
            /\ ev' = Event("no", cyc, r.nulls)
            /\ UNCHANGED <<phase, wifiMac, hasResidents, sinkGlobal, sinkWifi>>
       ELSE Complete(c, cyc, r.devs, r.home, r.nulls)

Others == <<site, call, reqLog, prevOk, nCalls, matchVars, startVars>>

\* refresh() is entered and awaits getClients().
StartRefresh(c) ==
    /\ cycles' = [cycles EXCEPT ![c] = [IdleCycle EXCEPT !.pc = "getClients"]]
    /\ clock' = c
    /\ ev' = Event("no", IdleCycle, {})
    /\ UNCHANGED <<devices, isHome, wifiMac, hasResidents, sinkGlobal, sinkWifi>>
    /\ UNCHANGED <<useSiteManagerApi, Others>>

\* testConnectionAndStart: the probe (and, when it fails, the alternative
\* configurations) settles. testConnection is true with the local backend
\* (getSites never rejects). Connected: await this.refresh(), then the timer;
\* not connected: the timer at once.
ProbeSettle ==
    /\ phase = "probing"
    /\ \E connected \in BOOLEAN :
         /\ ~useSiteManagerApi => connected
         /\ IF connected
            THEN phase' = "firstRefresh" /\ StartRefresh(1)
            ELSE /\ phase' = "polling"
                 /\ ev' = Event("no", IdleCycle, {})
                 /\ UNCHANGED <<clock, cycles, devices, isHome, wifiMac,
                                hasResidents, sinkGlobal, sinkWifi>>
                 /\ UNCHANGED <<useSiteManagerApi, Others>>

\* A timer that is created only after a first refresh has run.
TickAfterFirstRefresh ==
    /\ phase = "polling"
    /\ clock > 0
    /\ clock < MaxCycles
    /\ StartRefresh(clock + 1)
    /\ UNCHANGED phase

\* setInterval(() => this.refresh(), interval): the timer fires, whether or
\* not an earlier refresh() is still suspended.
Tick ==
    /\ phase = "polling"
    /\ clock < MaxCycles
    /\ StartRefresh(clock + 1)
    /\ UNCHANGED phase

\* await this.unifi.getClients() settles; refresh() goes on to await
\* getNetworkDevices(). The local backend returns the first list answered,
\* or [] when every endpoint was rejected; the Site Manager branch rejects
\* when its request does.
ClientsFetched(c, lists) ==
    \E ok \in BOOLEAN, list \in lists :
         LET cyc == [cycles[c] EXCEPT
                        !.clients = IF ok THEN list ELSE <<>>,
                        !.clientsFailed = ~ok]
         IN /\ ~ok => list = <<>>
            /\ IF ~ok /\ useSiteManagerApi
               THEN Abandon(c, cyc)
               ELSE /\ cycles' = [cycles EXCEPT ![c] =
                                     [cyc EXCEPT !.pc = "getNetworkDevices"]]
                    /\ ev' = Event("no", cyc, {})
                    /\ UNCHANGED <<phase, devices, isHome, wifiMac,
                                   hasResidents, sinkGlobal, sinkWifi>>

ClientsSettle(c) ==
    /\ cycles[c].pc = "getClients"
    /\ ClientsFetched(c, ClientLists)
    /\ UNCHANGED <<clock, useSiteManagerApi, Others>>

\* await this.unifi.getNetworkDevices() settles; refresh() runs the device
\* loop up to its first await, or to the end of refresh().
ApsFetched(c, lists) ==
    \E ok \in BOOLEAN, list \in lists \cup {<<>>} :
         LET cyc == [cycles[c] EXCEPT
                        !.accessPoints = IF ok THEN list ELSE <<>>,
                        !.apsFailed = ~ok]
         IN /\ ok <=> list # <<>>
            /\ IF ~ok /\ useSiteManagerApi
               THEN Abandon(c, cyc)
               ELSE Continue(c, cyc, devices, isHome, 1, {})

ApsSettle(c) ==
    /\ cycles[c].pc = "getNetworkDevices"
    /\ ApsFetched(c, ApLists)
    /\ UNCHANGED <<clock, useSiteManagerApi, Others>>

\* A getClientTrafficLast15Min that rejects where it has no sample: the
\* rejection reaches the catch of refresh().
TrafficSettleRejects(c) ==
    /\ cycles[c].pc = "traffic"
    /\ \E trafficData \in TrafficResults :
         LET cyc  == cycles[c]
             i    == cyc.at
             devs == [devices EXCEPT ![i] =
                         updateFromClient(devices[i], DeviceCfgs[i], cyc.match,
                                          trafficData, clock)]
         IN IF trafficData = NoSample
            THEN Abandon(c, cyc)
            ELSE Continue(c, cyc, devs, AfterDevice(devs, isHome, i), i + 1, {})
    /\ UNCHANGED <<clock, useSiteManagerApi, Others>>

\* await this.unifi.getClientTrafficLast15Min(mac) settles (it never
\* rejects); device.updateFromClient, and the loop goes on.
TrafficSettle(c) ==
    /\ cycles[c].pc = "traffic"
    /\ \E trafficData \in TrafficResults :
         LET cyc  == cycles[c]
             i    == cyc.at
             devs == [devices EXCEPT ![i] =
                         updateFromClient(devices[i], DeviceCfgs[i], cyc.match,
                                          trafficData, clock)]
         IN Continue(c, cyc, devs, AfterDevice(devs, isHome, i), i + 1,
                     IF trafficData = NoSample THEN {i} ELSE {})
    /\ UNCHANGED <<clock, useSiteManagerApi, Others>>

\* After connect() and setupAccessories(): the handlers' constructors have
\* pushed the initial state to the sinks.
PlatformInit ==
    /\ phase = "probing"
    /\ clock = 0
    /\ cycles = [c \in CycleIds |-> IdleCycle]
    /\ devices = [d \in DeviceIds |-> NewDevice]
    /\ isHome = [r \in ResidentIds |-> FALSE]
    /\ wifiMac = [w \in WifiIds |-> WifiPoints[w].mac]
    /\ hasResidents = [w \in WifiIds |-> FALSE]
    /\ sinkGlobal = FALSE
    /\ sinkWifi = [w \in WifiIds |-> FALSE]
    /\ ev = Event("no", IdleCycle, {})

-----------------------------------------------------------------------------
(* platform.ts: the orchestrator on lists with several matches or a bad record *)

\* A client list in which two devices with a traffic threshold are matched
\* and two clients match John's iPhone, and a list with a malformed record.
EdgeClientLists ==
    { <<>>, <<cPhone, cPhone2, cLaptop, cLaptop2, cIpad>>, <<cBroken, cPhone>> }

\* An access-point list in which two access points match the Office.
EdgeApLists ==
    { << [mac |-> ApOffice, ip |-> "192.168.1.2"],
         [mac |-> ApOffice2, ip |-> "192.168.1.2"],
         [mac |-> ApLiving, ip |-> "192.168.1.3"] >> }

EdgeClients(c) ==
    /\ cycles[c].pc = "getClients"
    /\ ClientsFetched(c, EdgeClientLists)
    /\ UNCHANGED <<clock, useSiteManagerApi, Others>>

EdgeAps(c) ==
    /\ cycles[c].pc = "getNetworkDevices"
    /\ ApsFetched(c, EdgeApLists)
    /\ UNCHANGED <<clock, useSiteManagerApi, Others>>

-----------------------------------------------------------------------------
(* platform.ts: the orchestrator and a controller that becomes reachable *)

\* The controller is unreachable while testConnectionAndStart runs: its
\* probe fails (Site Manager API; the local probe is true regardless) and
\* the requests of its first refresh fail. From the first timer tick on the
\* controller is reachable and lists the clients `world`.
Worlds == { list \in ClientLists : list # <<>> }

\* The execution c of refresh() is the one testConnectionAndStart awaits.
DuringStartup(c) == phase = "firstRefresh" /\ c = 1

RecoverProbe ==
    /\ ProbeSettle
    /\ useSiteManagerApi => phase' = "polling"

RecoverClients(c) ==
    /\ ClientsSettle(c)
    /\ IF DuringStartup(c)
       THEN cycles'[c].clientsFailed
       ELSE /\ cycles'[c].pc = "getNetworkDevices"
            /\ ~cycles'[c].clientsFailed
            /\ cycles'[c].clients = world

RecoverAps(c) ==
    /\ ApsSettle(c)
    /\ IF DuringStartup(c)
       THEN ev'.apsFailed
       ELSE /\ ev'.ended # "abandoned"
            /\ ~ev'.apsFailed
            /\ ~cycles'[c].apsFailed

-----------------------------------------------------------------------------
(* platform.ts: the constructor, the launch handler, testConnectionAndStart *)

\* config.interval as the host hands it over: absent, or a number.
NoInterval == [set |-> FALSE, value |-> 0]

IntervalValues ==
    {NoInterval} \cup
    { [set |-> TRUE, value |-> n] : n \in {-5, 0, 10, 30, 45, 180, 3600, 5000} }

\* The configurations: whether unifi.controller, unifi.apiKey and
\* unifi.hostId are given, the interval, globalPresenceSensor after its
\* default, and the numbers of residents and of wifi points.
Configs ==
    [controller : BOOLEAN, apiKey : BOOLEAN, hostId : BOOLEAN,
     interval : IntervalValues, globalPresenceSensor : BOOLEAN,
     residents : 0..1, wifiPoints : 0..1]

\* OccupancyDetected of the accessories the host restored from its cache:
\* the global presence accessory and the wifi point accessories.
CachedValues == [global : BOOLEAN, wifi : BOOLEAN]

\* parseConfig: its result (config and config.unifi being there).
parseConfig(cfg, cloud) ==
    IF ~cfg.apiKey THEN FALSE
    ELSE IF cloud /\ ~cfg.hostId THEN FALSE
    ELSE TRUE

\* parseConfig, line 83: this.config.interval = this.config.interval || 180.
parsedInterval(cfg) ==
    IF cfg.interval.set /\ cfg.interval.value # 0
    THEN cfg.interval.value
    ELSE 180

\* Math.min, Math.max
Min(a, b) == IF a <= b THEN a ELSE b
Max(a, b) == IF a >= b THEN a ELSE b

\* The UniFiLiteClient constructor throws (config.controller.replace on
\* undefined) when the local backend has no controller address.
ClientConstructorThrows(cfg, cloud) == ~cloud /\ ~cfg.controller

\* getAlternativeConfigs, by description, in the order of the array.
AlternativeConfigs ==
    << "Legacy controller without proxy prefix",
       "UniFi OS with HTTPS and SSL verification disabled",
       "Direct UniFi controller (port 8443)",
       "UniFi OS on port 443 without proxy",
       "Legacy controller on port 8080",
       "Cloud Key on port 8443" >>

\* A probe: testConnection() on the primary client (target 0) or on the
\* client of alternative `target`; pending, or settled true ("ok") or false
\* ("failed").
Probe(target) == [target |-> target, outcome |-> "pending"]

NoBoot ==
    [pc |-> "off", interval |-> 180, isConnected |-> FALSE, unifi |-> -1,
     probes |-> <<>>, sinks |-> FALSE, timers |-> 0, period |-> 0,
     refreshes |-> 0, refreshClients |-> {},
     shown |-> [global |-> FALSE, wifi |-> FALSE]]

\* A setupAccessories whose handlers leave the cached values in place.
setupAccessoriesKeepsCached(b) ==
    [b EXCEPT !.sinks = config.globalPresenceSensor \/ config.wifiPoints > 0]

\* setupAccessories: a handler for the global presence accessory when the
\* sensor is enabled, and one per wifi point; each handler's setupServices
\* pushes the presence computed from the residents as constructed.
setupAccessories(b) ==
    LET home == [r \in ResidentIds |-> FALSE]
        devs == [d \in DeviceIds |-> NewDevice]
    IN [b EXCEPT
          !.sinks = config.globalPresenceSensor \/ config.wifiPoints > 0,
          !.shown.global = IF config.globalPresenceSensor
                           THEN anyoneHome(home) ELSE @,
          !.shown.wifi = IF config.wifiPoints > 0
                         THEN \E w \in WifiIds :
                                 wifiUpdatePresence(WifiPoints[w].mac, devs)
                         ELSE @]

\* The values the handlers may show once a refresh() has run: whatever its
\* completion pushed, or the values as they were. An accessory without a
\* handler keeps its value.
AfterRefresh(sh) ==
    { v \in CachedValues :
         /\ ~config.globalPresenceSensor => v.global = sh.global
         /\ config.wifiPoints = 0 => v.wifi = sh.wifi }

\* A testConnectionAndStart that starts the monitoring whatever is
\* configured.
StartMonitoringAlways(b) ==
    [b EXCEPT !.pc = "firstRefresh", !.refreshes = @ + 1,
              !.refreshClients = @ \cup {b.unifi}]

\* A refreshPeriodically called from the try block and from its catch.
refreshPeriodicallyTwice(b) ==
    [b EXCEPT !.pc = "polling",
              !.timers = @ + 2,
              !.period = b.interval]

\* A refreshPeriodically that creates no timer.
refreshPeriodicallyNoTimer(b) == [b EXCEPT !.pc = "polling"]

\* A refreshPeriodically that uses the interval as it is.
refreshPeriodicallyUnclamped(b) ==
    [b EXCEPT !.pc = "polling", !.timers = @ + 1, !.period = b.interval]

\* refreshPeriodically: setInterval with the clamped interval (in seconds).
refreshPeriodically(b) ==
    [b EXCEPT !.pc = "polling",
              !.timers = @ + 1,
              !.period = Max(30, Min(3600, b.interval))]

\* refresh() is called: it runs on the client this.unifi holds.
CallRefresh(b) ==
    [b EXCEPT !.refreshes = @ + 1,
              !.refreshClients = @ \cup {b.unifi}]

\* testConnectionAndStart once connected: the first refresh, or standby.
StartMonitoring(b) ==
    IF config.residents > 0 \/ config.globalPresenceSensor
    THEN [CallRefresh(b) EXCEPT !.pc = "firstRefresh"]
    ELSE [b EXCEPT !.pc = "standby"]

\* The last probe issued settles.
Settled(b, ok) ==
    [b EXCEPT !.probes[Len(b.probes)].outcome =
                  IF ok THEN "ok" ELSE "failed"]

\* An alternative client that answers the probe and is then dropped.
AdoptNever(b, k) == [b EXCEPT !.isConnected = TRUE]

\* this.unifi = altClient; isConnected = true (lines 396-397).
Adopt(b, k) == [b EXCEPT !.unifi = k, !.isConnected = TRUE]

\* The constructor has run: parseConfig has passed and the launch handler is
\* registered, or the plugin is inert.
StartInit ==
    /\ useSiteManagerApi \in BOOLEAN
    /\ config \in Configs
    /\ \E cached \in CachedValues :
          boot = [NoBoot EXCEPT
                     !.pc = IF parseConfig(config, useSiteManagerApi)
                            THEN "waitLaunch" ELSE "inert",
                     !.interval = parsedInterval(config),
                     !.shown = cached]

StartOthers == <<useSiteManagerApi, config, world, matchVars, clientVars,
                 platVars>>

\* didFinishLaunching: connect(), setupAccessories() and the call of
\* testConnectionAndStart, which issues the primary probe; or connect()
\* throws and the handler's catch ends the startup.
DidFinishLaunching ==
    /\ boot.pc = "waitLaunch"
    /\ boot' = IF ClientConstructorThrows(config, useSiteManagerApi)
               THEN [boot EXCEPT !.pc = "failed"]
               ELSE [setupAccessories(boot) EXCEPT
                        !.pc = "probe", !.unifi = 0,
                        !.probes = <<Probe(0)>>]
    /\ UNCHANGED StartOthers

\* await this.unifi.testConnection() settles. The local backend's probe is
\* always true. On false the alternatives are built (which throws without a
\* controller address, and the catch schedules the polling) and the first
\* one is probed.
PrimaryProbeSettle ==
    /\ boot.pc = "probe"
    /\ \E ok \in BOOLEAN :
         /\ ~useSiteManagerApi => ok
         /\ LET b == Settled(boot, ok)
            IN boot' =
                 IF ok THEN StartMonitoring([b EXCEPT !.isConnected = TRUE])
                 ELSE IF ~config.controller THEN refreshPeriodically(b)
                 ELSE [b EXCEPT !.pc = "alt",
                                !.probes = Append(@, Probe(1))]
    /\ UNCHANGED StartOthers

\* await altClient.testConnection() settles: the alternative becomes the
\* session client, or the next one is probed, or, after the last one, the
\* polling is scheduled without a connection.
AltProbeSettle ==
    /\ boot.pc = "alt"
    /\ \E ok \in BOOLEAN :
         LET b == Settled(boot, ok)
             k == boot.probes[Len(boot.probes)].target
         IN boot' =
              IF ok THEN StartMonitoring(Adopt(b, k))
              ELSE IF k < Len(AlternativeConfigs)
              THEN [b EXCEPT !.probes = Append(@, Probe(k + 1))]
              ELSE refreshPeriodically(b)
    /\ UNCHANGED StartOthers

\* await this.refresh() returns (refresh() never rejects), completed or
\* abandoned; the timer is created.
FirstRefreshEnds ==
    /\ boot.pc = "firstRefresh"
    /\ \E v \in AfterRefresh(boot.shown) :
          boot' = [refreshPeriodically(boot) EXCEPT !.shown = v]
    /\ UNCHANGED StartOthers

\* The timer fires: refresh() is called. The executions called earlier may
\* have run to their end in the meantime.
TimerTick ==
    /\ boot.pc = "polling"
    /\ boot.timers > 0
    /\ boot.refreshes < MaxCycles
    /\ \E v \in AfterRefresh(boot.shown) :
          /\ boot.refreshes = 0 => v = boot.shown
          /\ boot' = [CallRefresh(boot) EXCEPT !.shown = v]
    /\ UNCHANGED StartOthers

-----------------------------------------------------------------------------
(* Specifications *)

\* The variables of a part a specification does not exercise stay at rest.
MatchIdleInit ==
    /\ mDev = [mac |-> Undefined, ip |-> Undefined, hostname |-> Undefined]
    /\ mCli = NoClient
    /\ mRes = MatchIdle
    /\ mApRes = MatchIdle

UpdateIdleInit ==
    /\ uIn = UpdateIdleIn
    /\ uOut = UpdateIdleOut

ClientIdleInit ==
    /\ site = "default"
    /\ call = NoCall
    /\ reqLog = <<>>
    /\ prevOk = NoneOk
    /\ nCalls = 0

PlatformIdleInit ==
    /\ phase = "off"
    /\ clock = 0
    /\ cycles = [c \in CycleIds |-> IdleCycle]
    /\ devices = [d \in DeviceIds |-> NewDevice]
    /\ isHome = [r \in ResidentIds |-> FALSE]
    /\ wifiMac = [w \in WifiIds |-> WifiPoints[w].mac]
    /\ hasResidents = [w \in WifiIds |-> FALSE]
    /\ sinkGlobal = FALSE
    /\ sinkWifi = [w \in WifiIds |-> FALSE]
    /\ ev = Event("no", IdleCycle, {})

StartIdleInit ==
    /\ config = [controller |-> TRUE, apiKey |-> TRUE, hostId |-> TRUE,
                 interval |-> NoInterval, globalPresenceSensor |-> TRUE,
                 residents |-> 1, wifiPoints |-> 1]
    /\ boot = NoBoot
    /\ world = <<>>

InitMatch ==
    /\ MatchInit
    /\ StartIdleInit
    /\ UpdateIdleInit
    /\ useSiteManagerApi = FALSE
    /\ ClientIdleInit
    /\ PlatformIdleInit

MatchNext ==
    \/ CallMatchesClient
    \/ CallMatchesAccessPoint

SpecMatch == InitMatch /\ [][MatchNext]_vars

InitClient ==
    /\ ClientInit
    /\ MatchIdleInit
    /\ UpdateIdleInit
    /\ PlatformIdleInit
    /\ StartIdleInit

InitUpdate ==
    /\ UpdateInit
    /\ StartIdleInit
    /\ MatchIdleInit
    /\ useSiteManagerApi = FALSE
    /\ ClientIdleInit
    /\ PlatformIdleInit

UpdateNext == CallUpdateFromClient

SpecUpdate == InitUpdate /\ [][UpdateNext]_vars

ClientNext ==
    \/ GetClients
    \/ GetNetworkDevices
    \/ TestConnection
    \/ RequestStep

SpecClient == InitClient /\ [][ClientNext]_vars

InitStart ==
    /\ StartInit
    /\ world = <<>>
    /\ PlatformIdleInit
    /\ ClientIdleInit
    /\ MatchIdleInit
    /\ UpdateIdleInit

StartNext ==
    \/ DidFinishLaunching
    \/ PrimaryProbeSettle
    \/ AltProbeSettle
    \/ FirstRefreshEnds
    \/ TimerTick

SpecStart == InitStart /\ [][StartNext]_vars

\* The timer fires as long as it exists.
SpecStartFair == SpecStart /\ WF_vars(TimerTick)

InitRecover ==
    /\ useSiteManagerApi \in BOOLEAN
    /\ world \in Worlds
    /\ config = [controller |-> TRUE, apiKey |-> TRUE, hostId |-> TRUE,
                 interval |-> NoInterval, globalPresenceSensor |-> TRUE,
                 residents |-> 1, wifiPoints |-> 1]
    /\ boot = NoBoot
    /\ PlatformInit
    /\ ClientIdleInit
    /\ MatchIdleInit
    /\ UpdateIdleInit

RecoverNext ==
    \/ RecoverProbe
    \/ Tick
    \/ \E c \in CycleIds : RecoverClients(c)
    \/ \E c \in CycleIds : RecoverAps(c)
    \/ \E c \in CycleIds : TrafficSettle(c)

\* The timer fires and every request to the controller settles: no timer
\* tick and no response is put off for ever.
SpecRecover == InitRecover /\ [][RecoverNext]_vars /\ WF_vars(RecoverNext)

EdgeNext ==
    \/ ProbeSettle
    \/ Tick
    \/ \E c \in CycleIds : EdgeClients(c)
    \/ \E c \in CycleIds : EdgeAps(c)
    \/ \E c \in CycleIds : TrafficSettle(c)

Init ==
    /\ useSiteManagerApi \in BOOLEAN
    /\ StartIdleInit
    /\ PlatformInit
    /\ ClientIdleInit
    /\ MatchIdleInit
    /\ UpdateIdleInit

Next ==
    \/ ProbeSettle
    \/ Tick
    \/ \E c \in CycleIds : ClientsSettle(c)
    \/ \E c \in CycleIds : ApsSettle(c)
    \/ \E c \in CycleIds : TrafficSettle(c)

Spec == Init /\ [][Next]_vars

SpecEdge == Init /\ [][EdgeNext]_vars

-----------------------------------------------------------------------------
(* Claims checked under SpecMatch *)

\* The number of identity fields the device under test configures.
ConfiguredFields ==
    Cardinality({f \in {"mac", "ip", "hostname"} : Truthy(mDev[f])})

\* C1: with two or more identity fields configured, matchesClient is false
\* as soon as one configured field does not match the record's field
\* (MAC and hostname without regard to case, hostname against hostname or
\* name, IP exactly), even when the other configured fields match.
C1_Conjunctive ==
    LET macOk  == Truthy(mCli.mac)
                     /\ ToLowerCase(mDev.mac) = ToLowerCase(mCli.mac)
        ipOk   == Truthy(mCli.ip) /\ mDev.ip = mCli.ip
        hostOk == \/ Truthy(mCli.hostname)
                        /\ ToLowerCase(mDev.hostname) = ToLowerCase(mCli.hostname)
                  \/ Truthy(mCli.name)
                        /\ ToLowerCase(mDev.hostname) = ToLowerCase(mCli.name)
        mismatch == \/ Truthy(mDev.mac) /\ ~macOk
                    \/ Truthy(mDev.ip) /\ ~ipOk
                    \/ Truthy(mDev.hostname) /\ ~hostOk
    IN (mRes.done /\ ConfiguredFields >= 2 /\ mismatch) => ~mRes.value

\* Both set, and equal without regard to letter case.
SameIgnoringCase(a, b) == Truthy(a) /\ Truthy(b) /\ ToLowerCase(a) = ToLowerCase(b)

CanonicalMac(s) ==
    CASE s = "AA:BB:CC:DD:EE:FF" -> "aa:bb:cc:dd:ee:ff"
      [] s = "AA-BB-CC-DD-EE-FF" -> "aa:bb:cc:dd:ee:ff"
      [] OTHER                   -> ToLowerCase(s)

\* C15: matchesClient compares MACs with separators and case normalised: a
\* Device whose MAC is written with '-' matches a record carrying the same
\* MAC written with ':', in either letter case.
C15_MacSeparatorsNormalised ==
    (/\ mRes.done
     /\ mDev.mac = "AA-BB-CC-DD-EE-FF"
     /\ Truthy(mCli.mac)
     /\ CanonicalMac(mDev.mac) = CanonicalMac(mCli.mac)) => mRes.value

\* C16: matchesAccessPoint is conjunctive over MAC and IP: a Location that
\* configures both matches an access-point record only if both equal the
\* record's fields; a record matching only one of them is rejected.
C16_LocationConjunctive ==
    LET macOk == SameIgnoringCase(mDev.mac, mCli.mac)
        ipOk  == Truthy(mCli.ip) /\ mDev.ip = mCli.ip
    IN (mApRes.done /\ Truthy(mDev.mac) /\ Truthy(mDev.ip) /\ ~(macOk /\ ipOk))
          => ~mApRes.value

-----------------------------------------------------------------------------
(* Claims checked under SpecUpdate *)

\* C18: for a matched Device with minTrafficAmount = m > 0 and an available
\* sample {rx, tx} the Device is online iff rx + tx >= 1024 * m; with m = 50,
\* {40000, 12000} gives online and {30000, 0} and {0, 0} give offline.
C18_OnlineIffSampleReachesThreshold ==
    LET m  == uIn.minTrafficAmount
        rx == uIn.trafficData.rx_bytes
        tx == uIn.trafficData.tx_bytes
    IN (uOut.done /\ m > 0 /\ uIn.trafficData.present) =>
          /\ uOut.dev.isOnline = (rx + tx >= 1024 * m)
          /\ (m = 50 /\ rx = 40000 /\ tx = 12000) => uOut.dev.isOnline
          /\ (m = 50 /\ rx = 30000 /\ tx = 0) => ~uOut.dev.isOnline
          /\ (m = 50 /\ rx = 0 /\ tx = 0) => ~uOut.dev.isOnline

\* The 50 KB device has been updated with a sample of 51199 bytes, one
\* short of 50 * 1024, after an earlier sample of 60000: it is offline.
C18_Witness ==
    /\ uOut.done
    /\ uIn.minTrafficAmount = 50
    /\ uIn.dev.trafficBytes = 60000
    /\ uIn.trafficData = Sample(51199, 0)
    /\ ~uOut.dev.isOnline
    /\ uOut.dev.trafficBytes = 51199

\* The first non-empty value of a sequence of fields, or none.
RECURSIVE FirstNonEmpty(_)
FirstNonEmpty(fields) ==
    IF fields = <<>> THEN [found |-> FALSE, value |-> Undefined]
    ELSE IF Truthy(Head(fields)) THEN [found |-> TRUE, value |-> Head(fields)]
    ELSE FirstNonEmpty(Tail(fields))

\* C19: a Device updated from its matching client is online (before the
\* traffic threshold is applied), its lastSeen is the time of the update and
\* its currentAccessPoint is the first non-empty of the record's ap_mac,
\* sw_mac, uplink_mac, access_point_mac in that order, or absent (not a
\* usable value) when all four are empty.
C19_MatchedDeviceState ==
    LET first == FirstNonEmpty(<<uIn.client.ap_mac, uIn.client.sw_mac,
                                 uIn.client.uplink_mac,
                                 uIn.client.access_point_mac>>)
    IN uOut.done =>
          /\ uIn.minTrafficAmount = 0 => uOut.dev.isOnline
          /\ uOut.dev.lastSeen = UpdateNow
          /\ IF first.found
             THEN uOut.dev.currentAccessPoint = first.value
             ELSE ~Truthy(uOut.dev.currentAccessPoint)

\* A record with an empty ap_mac and with sw_mac, uplink_mac and
\* access_point_mac set has updated a device without threshold: the device
\* is online at the switch.
C19_Witness ==
    /\ uOut.done
    /\ uIn.minTrafficAmount = 0
    /\ uIn.client = [ap_mac |-> "", sw_mac |-> "sw", uplink_mac |-> "uplink",
                     access_point_mac |-> "generic"]
    /\ uOut.dev.isOnline
    /\ uOut.dev.lastSeen = UpdateNow
    /\ uOut.dev.currentAccessPoint = "sw"

-----------------------------------------------------------------------------
(* Claims checked under SpecStart and SpecStartFair *)

\* The primary probe and the probe of every alternative have settled false.
AllProbesFailed ==
    /\ Len(boot.probes) = 1 + Len(AlternativeConfigs)
    /\ \A i \in 1..Len(boot.probes) : boot.probes[i].outcome = "failed"

\* C21: when the startup probe and the probe of every alternative have
\* failed, the polling timer exists, and from then on the timer keeps
\* calling refresh(): every tick the bound allows is taken, each one a
\* refresh() call.
C21_FailedStartupStillPolls ==
    /\ [](AllProbesFailed => boot.pc = "polling" /\ boot.timers = 1)
    /\ \A n \in 0..MaxCycles :
          (AllProbesFailed /\ boot.refreshes = n)
              ~> (boot.refreshes = MaxCycles)

C21_Witness ==
    /\ AllProbesFailed
    /\ boot.timers = 1
    /\ boot.refreshes = MaxCycles

\* The startup is over: testConnectionAndStart is past its probes.
AfterStartup == boot.pc \in {"firstRefresh", "polling", "standby"}

\* C24: the alternatives are probed only after the primary probe settled
\* false, one at a time in the order of the array, each only after all
\* earlier ones failed; the first one that answers becomes the session
\* client, on which every later refresh() runs; and once the startup is over
\* no probe is issued and the session client does not change.
C24_AlternativesInOrderFirstSuccessAdopted ==
    /\ [](/\ \A i \in 1..Len(boot.probes) : boot.probes[i].target = i - 1
          /\ \A i \in 1..(Len(boot.probes) - 1) :
                boot.probes[i].outcome = "failed"
          /\ AfterStartup =>
                LET last == boot.probes[Len(boot.probes)]
                IN /\ last.outcome # "pending"
                   /\ boot.unifi = IF last.outcome = "ok"
                                   THEN last.target ELSE 0
          /\ boot.refreshClients \subseteq {boot.unifi})
    /\ [][AfterStartup =>
              /\ boot'.probes = boot.probes
              /\ boot'.unifi = boot.unifi]_vars

C24_Witness ==
    /\ Len(boot.probes) = 4
    /\ boot.unifi = 3
    /\ boot.refreshClients = {3}
    /\ boot.refreshes = MaxCycles

\* The configuration errors: no controller address, no API key, or the
\* Site Manager API without a host id.
ConfigError ==
    \/ ~config.controller
    \/ ~config.apiKey
    \/ useSiteManagerApi /\ ~config.hostId

\* C25: with a configuration error no probe is issued, no handler is
\* created, refresh() is never called and no timer is created.
C25_ConfigErrorMakesInert ==
    ConfigError =>
        /\ boot.probes = <<>>
        /\ ~boot.sinks
        /\ boot.refreshes = 0
        /\ boot.timers = 0

\* min(3600, max(30, n))
Clamped(n) == IF n < 30 THEN 30 ELSE IF n > 3600 THEN 3600 ELSE n

\* C26 as stated: the period of the timer is min(3600, max(30, interval))
\* for a configured interval and 180 when the interval is absent.
C26_PeriodIsClampedInterval ==
    boot.timers > 0 =>
        /\ boot.period \in 30..3600
        /\ boot.period = IF config.interval.set
                         THEN Clamped(config.interval.value) ELSE 180

\* C26, amended: the period of the timer is within 30..3600; it is
\* min(3600, max(30, interval)) for a configured interval other than 0, and
\* 180 when the interval is absent or 0.
C26_PeriodIsClampedNonZeroInterval ==
    boot.timers > 0 =>
        /\ boot.period \in 30..3600
        /\ boot.period = IF config.interval.set /\ config.interval.value # 0
                         THEN Clamped(config.interval.value) ELSE 180

C26_Witness ==
    /\ boot.timers > 0
    /\ config.interval.set
    /\ config.interval.value = 5000
    /\ boot.period = 3600

\* C36: after a successful probe the monitoring is started, one immediate
\* refresh() and then the timer, iff a resident is configured or the global
\* presence sensor is enabled; otherwise the plugin is in standby, without
\* any refresh() call and without a timer, wifi points or not.
C36_MonitoringIffResidentsOrGlobalSensor ==
    (boot.isConnected /\ AfterStartup) =>
        IF config.residents > 0 \/ config.globalPresenceSensor
        THEN /\ boot.pc \in {"firstRefresh", "polling"}
             /\ boot.refreshes >= 1
             /\ boot.pc = "firstRefresh" =>
                   boot.refreshes = 1 /\ boot.timers = 0
             /\ boot.pc = "polling" => boot.timers = 1
        ELSE /\ boot.pc = "standby"
             /\ boot.refreshes = 0
             /\ boot.timers = 0

C36_Witness ==
    /\ boot.isConnected
    /\ boot.pc = "standby"
    /\ config.wifiPoints > 0
    /\ boot.sinks
    /\ boot.refreshes = 0

\* C37: on every startup path the timer is created at most once.
C37_AtMostOneTimer == boot.timers <= 1

C37_Witness ==
    /\ useSiteManagerApi
    /\ ~config.controller
    /\ ~boot.isConnected
    /\ boot.timers = 1
    /\ boot.refreshes = MaxCycles

\* No refresh() has ended since the handlers were created.
BeforeFirstCycleEnds ==
    \/ boot.pc \in {"probe", "alt", "firstRefresh", "standby"}
    \/ boot.pc = "polling" /\ boot.refreshes <= 1 /\ ~boot.isConnected

\* C38: from the creation of the handlers until the first refresh() ends,
\* every accessory with a handler shows unoccupied, whatever the cached
\* accessory showed.
C38_SinksUnoccupiedUntilFirstCycle ==
    BeforeFirstCycleEnds =>
        /\ config.globalPresenceSensor => ~boot.shown.global
        /\ config.wifiPoints > 0 => ~boot.shown.wifi

C38_Witness ==
    /\ boot.pc = "firstRefresh"
    /\ config.globalPresenceSensor
    /\ config.wifiPoints > 0
    /\ ~boot.shown.global
    /\ ~boot.shown.wifi

-----------------------------------------------------------------------------
(* Claims checked under SpecRecover *)

\* The controller lists a client that Device d matches.
ConnectedDevice(d) ==
    \E k \in 1..Len(world) : matchesClient(DeviceCfgs[d], world[k])

\* A refresh() started after the startup has just completed on the client
\* list it fetched.
RecoveredCycle ==
    /\ clock > 0
    /\ ev.ended = "completed"
    /\ ~ev.clientsFailed

\* The owner of Device d is home and the global sink shows it.
HomeOnSinks(d) == isHome[DeviceCfgs[d].owner] /\ sinkGlobal

-----------------------------------------------------------------------------
(* Claims checked under SpecClient *)

\* A listing call (getClients / getNetworkDevices) on the local backend.
LocalListing ==
    /\ ~useSiteManagerApi
    /\ call.op \in {"getClients", "getNetworkDevices"}

AllRejected == \A i \in 1..Len(reqLog) : reqLog[i].rejected

\* C3: testConnection returns true iff at least one of the requests it issued
\* succeeded; on a local backend whose every request fails it returns false.
C3_ProbeTrueIffARequestSucceeded ==
    (call.op = "testConnection" /\ call.status = "returned")
        => (call.probe <=> ~AllRejected)

\* C5: once an endpoint of a resource has succeeded in the session, a later
\* call for that resource requests that endpoint first.
C5_DiscoveredEndpointRequestedFirst ==
    (LocalListing /\ call.known[call.loop] > 0 /\ Len(reqLog) > 0)
        => reqLog[1].endpoint = Endpoints(call.loop, site)[call.known[call.loop]]

\* C6: a local listing call requests its candidates in declared order, one
\* per step, never requests a candidate after one that succeeded, and returns
\* the unwrapped payload (the data property when present, else the body) of
\* the first candidate that succeeded.
C6_InOrderFirstSuccessWins ==
    LocalListing =>
        /\ Len(reqLog) <= Len(Endpoints(call.loop, site))
        /\ \A i \in 1..Len(reqLog) :
              /\ reqLog[i].endpoint = Endpoints(call.loop, site)[i]
              /\ i < Len(reqLog) => reqLog[i].rejected
        /\ call.status = "running" => AllRejected
        /\ (call.status = "returned" /\ ~AllRejected) =>
              LET last == reqLog[Len(reqLog)]
              IN call.result = IF last.data.kind # "undefined"
                               THEN last.data ELSE last.body

\* C6 witness: candidates 1-3 rejected, candidate 4 answered { data: B }, and
\* getClients returned B after four requests.
C6_Witness ==
    /\ LocalListing /\ call.op = "getClients" /\ call.status = "returned"
    /\ Len(reqLog) = 4
    /\ \A i \in 1..3 : reqLog[i].rejected
    /\ ~reqLog[4].rejected /\ reqLog[4].data = JArr("B")
    /\ reqLog[4].endpoint = "/api/stat/sta"
    /\ call.result = JArr("B")

\* C7: a local listing call never raises, and when every candidate was
\* rejected it has requested them all and returns the empty list.
C7_AllFailReturnsEmpty ==
    LocalListing =>
        /\ call.status # "raised"
        /\ (call.status = "returned" /\ AllRejected) =>
              /\ Len(reqLog) = Len(Endpoints(call.loop, site))
              /\ call.result = JArr("")

\* C7 witness: getClients returned after nine rejected requests that failed
\* in all three ways.
C7_Witness ==
    /\ LocalListing /\ call.op = "getClients" /\ call.status = "returned"
    /\ Len(reqLog) = 9 /\ AllRejected
    /\ call.kinds = {"transport", "http_error", "bad_body"}
    /\ call.result = JArr("")

-----------------------------------------------------------------------------
(* Claims checked under Spec *)

\* The executions of refresh() that are in progress.
Running == { c \in CycleIds : cycles[c].pc # "idle" }

\* A refresh() ended in the last step.
Ended == ev.ended # "no"

\* C2: refresh cycles never overlap: at every moment at most one execution
\* of refresh() is in progress, and a timer tick during a suspended cycle
\* starts no second one.
C2_CyclesNeverOverlap == Cardinality(Running) <= 1

\* C4: a matched device with minTrafficAmount > 0 whose traffic sample of
\* the cycle is null is offline after its update and its trafficBytes is 0,
\* whatever trafficBytes an earlier cycle left.
C4_NullSampleForcesOfflineAndZero ==
    \A d \in ev.nullSample :
        ~devices[d].isOnline /\ devices[d].trafficBytes = 0

\* C8: with either backend a failed client fetch or access-point fetch is
\* degraded to an empty list and the cycle goes on to its end, where every
\* sink is notified: no cycle is given up because a fetch failed.
C8_FetchFailureNeverAbortsCycle ==
    (Ended /\ (ev.clientsFailed \/ ev.apsFailed)) => ev.ended = "completed"

\* C9: a cycle whose access-point fetch fails while its client fetch
\* succeeds completes, and every Location, one configured with a MAC
\* included, then resolves occupied = false.
C9_ApFailureLeavesEveryLocationUnoccupied ==
    (Ended /\ ev.apsFailed /\ ~ev.clientsFailed) =>
        /\ ev.ended = "completed"
        /\ \A w \in WifiIds : ~hasResidents[w] /\ ~sinkWifi[w]

\* Some device, online or not, is associated with the access point `mac`.
DeviceAt(mac) ==
    \E d \in DeviceIds : devices[d].currentAccessPoint = mac

\* Some online device is associated with the access point `mac`.
OnlineDeviceAt(mac) ==
    \E d \in DeviceIds :
        devices[d].isOnline /\ devices[d].currentAccessPoint = mac

\* C10 as stated: when a cycle has updated the Locations, a Location is
\* occupied iff some device of some resident has currentAccessPoint equal to
\* the Location's MAC, whether or not the device is online.
C10_OccupiedIffDeviceAtMac ==
    ev.ended = "completed" =>
        \A w \in WifiIds :
            hasResidents[w] = (Truthy(wifiMac[w]) /\ DeviceAt(wifiMac[w]))

\* C10 amended: when a cycle has updated the Locations, a Location is
\* occupied iff it has a MAC and some device of some resident is online with
\* currentAccessPoint equal to that MAC; a matched device forced offline by
\* its traffic threshold does not make its Location occupied.
C10_OccupiedIffOnlineDeviceAtMac ==
    ev.ended = "completed" =>
        \A w \in WifiIds :
            hasResidents[w] = (Truthy(wifiMac[w]) /\ OnlineDeviceAt(wifiMac[w]))

\* A cycle has ended with the only device at the Office access point being
\* the laptop, matched but below its traffic threshold: the Office is not
\* occupied, while the Living Room is.
C10_Witness ==
    /\ ev.ended = "completed"
    /\ wifiMac[2] = ApOffice
    /\ devices[2].currentAccessPoint = ApOffice
    /\ ~devices[2].isOnline
    /\ ~hasResidents[2]
    /\ hasResidents[1]

\* C11: in every state a Location whose MAC is unset (not configured and
\* not resolved against a fetched access point) is not occupied, whatever
\* the devices' states are.
C11_NoMacNeverOccupied ==
    \A w \in WifiIds : ~Truthy(wifiMac[w]) => ~hasResidents[w]

\* A cycle has ended with the Office still without a MAC while a device is
\* online with no access point on its record: its currentAccessPoint is
\* undefined, like the Office's MAC.
C11_Witness ==
    /\ ev.ended = "completed"
    /\ ~Truthy(wifiMac[2])
    /\ ~hasResidents[2]
    /\ \E d \in DeviceIds :
          devices[d].isOnline /\ devices[d].currentAccessPoint = Undefined

\* Some device of resident r is online.
SomeDeviceOnline(r) ==
    \E d \in DeviceIds : DeviceCfgs[d].owner = r /\ devices[d].isOnline

\* C12: after every refresh cycle that runs to completion each Resident's
\* isHome equals (some device of that resident is online).
C12_IsHomeIffSomeDeviceOnline ==
    ev.ended = "completed" =>
        \A r \in ResidentIds : isHome[r] = SomeDeviceOnline(r)

\* The device configures none of mac, ip, hostname.
NoIdentity(cfg) ==
    ~Truthy(cfg.mac) /\ ~Truthy(cfg.ip) /\ ~Truthy(cfg.hostname)

\* C13: a Device with none of mac, ip, hostname configured is offline in
\* every state, whatever cycles have run and whatever clients were fetched.
C13_NoIdentityNeverOnline ==
    \A d \in DeviceIds : NoIdentity(DeviceCfgs[d]) => ~devices[d].isOnline

\* Cycles have found the other device of the tag's resident, and a device of
\* the other resident, among the fetched clients; the tag has never been
\* matched.
C13_Witness ==
    /\ ev.ended = "completed"
    /\ NoIdentity(DeviceCfgs[4])
    /\ devices[1].isOnline
    /\ devices[3].isOnline
    /\ devices[4].lastSeen = 0
    /\ ~devices[4].isOnline

\* The devices the step of cycle c passes through its loop without a
\* matching client: from the first device (after getNetworkDevices) or the
\* one after the device whose sample was awaited, up to the device the cycle
\* is suspended at next, or to the last.
PassedUnmatched(c) ==
    LET first == IF cycles[c].pc = "traffic" THEN cycles[c].at + 1 ELSE 1
        last  == IF cycles'[c].pc = "traffic" THEN cycles'[c].at - 1
                 ELSE Len(DeviceCfgs)
    IN IF /\ cycles[c].pc \in {"getNetworkDevices", "traffic"}
          /\ cycles'[c] # cycles[c]
          /\ ev'.ended # "abandoned"
       THEN { d \in first..last :
                 FindClient(DeviceCfgs[d], cycles[c].clients) = 0 }
       ELSE {}

\* C17: when a cycle finds no client for a Device it sets online=false and
\* clears currentAccessPoint and leaves lastSeen and trafficBytes as they
\* were; so a second unmatched cycle leaves the Device as the first did.
C17_UnmatchedKeepsLastSeenAndTraffic ==
    [][\A c \in CycleIds : \A d \in PassedUnmatched(c) :
          /\ ~devices'[d].isOnline
          /\ devices'[d].currentAccessPoint = Undefined
          /\ devices'[d].lastSeen = devices[d].lastSeen
          /\ devices'[d].trafficBytes = devices[d].trafficBytes]_vars

\* A cycle with no client at all has ended: every device is offline without
\* an access point, and the laptop still carries the time of its last match
\* and the traffic of its last sample.
C17_Witness ==
    /\ ev.ended = "completed"
    /\ ev.clientsFailed
    /\ \A d \in DeviceIds :
          ~devices[d].isOnline /\ devices[d].currentAccessPoint = Undefined
    /\ devices[2].lastSeen > 0
    /\ devices[2].trafficBytes = 1024

\* The step completes cycle c.
Completes(c) ==
    /\ cycles[c].pc # "idle"
    /\ cycles'[c].pc = "idle"
    /\ ev'.ended = "completed"

\* Device d configures a MAC that some client fetched by the cycle `cyc`
\* carries, in whatever letter case, and that client is associated (ap_mac)
\* with the access point whose MAC Location w configures.
ConnectedAt(cyc, d, w) ==
    /\ Truthy(DeviceCfgs[d].mac)
    /\ Truthy(WifiPoints[w].mac)
    /\ \E k \in 1..Len(cyc.clients) :
          /\ SameIgnoringCase(DeviceCfgs[d].mac, cyc.clients[k].mac)
          /\ cyc.clients[k].ap_mac = WifiPoints[w].mac

\* C20: if a Resident's Device configures the MAC of a fetched client,
\* without regard to case, and that client's ap_mac is the MAC of a
\* configured Location, then when the cycle has completed the Resident is
\* home and the Location is occupied.
C20_ConnectedDeviceMakesHomeAndOccupied ==
    [][\A c \in CycleIds : \A d \in DeviceIds : \A w \in WifiIds :
          (Completes(c) /\ ConnectedAt(cycles[c], d, w)) =>
              isHome'[DeviceCfgs[d].owner] /\ hasResidents'[w]]_vars

\* C23: an exception raised inside a refresh cycle is caught inside
\* refresh(): the cycle is abandoned, the timer is untouched (or, after the
\* first refresh, is created), and the next tick starts the next cycle.
C23_AbandonedCycleLeavesTimerRunning ==
    ev.ended = "abandoned" =>
        /\ phase = "polling"
        /\ clock < MaxCycles => ENABLED Tick

C23_Witness ==
    /\ ev.ended = "abandoned"
    /\ clock < MaxCycles
    /\ ENABLED Tick

\* C27: after every refresh cycle that runs to completion, the value last
\* pushed to the global sink is (some Resident has isHome = true) and the
\* value last pushed to each Location sink is that Location's occupied flag,
\* the flag being the one computed from the devices and the Location MAC as
\* that cycle left them.
C27_SinksShowStateOfCompletedCycle ==
    ev.ended = "completed" =>
        /\ sinkGlobal = (\E r \in ResidentIds : isHome[r])
        /\ \A w \in WifiIds :
              /\ sinkWifi[w] = hasResidents[w]
              /\ hasResidents[w] =
                    (Truthy(wifiMac[w]) /\ OnlineDeviceAt(wifiMac[w]))

C27_Witness ==
    /\ ev.ended = "completed"
    /\ sinkGlobal
    /\ \E r \in ResidentIds : ~isHome[r]
    /\ \E w \in WifiIds : sinkWifi[w]
    /\ \E w \in WifiIds : ~sinkWifi[w]

\* C28: the settling of a traffic-sample fetch, whatever it brought, never
\* abandons the cycle: the cycle goes on to a later device's sample or runs
\* to completion, sinks included.
C28_TrafficFailureNeverAbortsCycle ==
    [][\A c \in CycleIds :
          (cycles[c].pc = "traffic" /\ cycles'[c] # cycles[c]) =>
              /\ ev'.ended # "abandoned"
              /\ \/ ev'.ended = "completed" /\ cycles'[c].pc = "idle"
                 \/ /\ ev'.ended = "no"
                    /\ cycles'[c].pc = "traffic"
                    /\ cycles'[c].at > cycles[c].at]_vars

C28_Witness ==
    /\ ~useSiteManagerApi
    /\ ev.ended = "completed"
    /\ ev.nullSample # {}

\* C30: once a Location has a MAC, configured or resolved in an earlier
\* cycle, no later step changes it.
C30_SetMacNeverChanges ==
    [][\A w \in WifiIds :
          wifiMac[w] # Undefined => wifiMac'[w] = wifiMac[w]]_vars

\* Resident r has an online device associated with the MAC of Location w.
PresentAt(r, w) ==
    \E d \in DeviceIds :
        /\ DeviceCfgs[d].owner = r
        /\ devices[d].isOnline
        /\ devices[d].currentAccessPoint = wifiMac[w]

\* C29: the summary of the global sink is 'Home: ' and the comma-separated
\* names of exactly the residents that are home, or 'Nobody home' when none
\* is; the summary of a Location sink is 'Present: ' and the names of exactly
\* the residents with an online device at the Location's MAC, or 'No one
\* present' when the Location is unoccupied.
C29_StatusSummaries ==
    /\ globalGetStatusSummary(isHome) =
          (IF isHome[1] /\ isHome[2] THEN "Home: John, Jane"
           ELSE IF isHome[1] THEN "Home: John"
           ELSE IF isHome[2] THEN "Home: Jane"
           ELSE "Nobody home")
    /\ \A w \in WifiIds :
          wifiGetStatusSummary(hasResidents[w], wifiMac[w], devices) =
              (IF ~hasResidents[w] THEN "No one present"
               ELSE IF PresentAt(1, w) /\ PresentAt(2, w)
               THEN "Present: John, Jane"
               ELSE IF PresentAt(1, w) THEN "Present: John"
               ELSE IF PresentAt(2, w) THEN "Present: Jane"
               ELSE "Present: ")

C29_Witness ==
    /\ globalGetStatusSummary(isHome) = "Home: John, Jane"
    /\ wifiGetStatusSummary(hasResidents[1], wifiMac[1], devices)
          = "Present: John"
    /\ wifiGetStatusSummary(hasResidents[2], wifiMac[2], devices)
          = "No one present"

C34_LocalClientOutageReportsAway ==
    (~useSiteManagerApi /\ ev.ended = "completed" /\ ev.clientsFailed) =>
        /\ \A d \in DeviceIds : ~devices[d].isOnline
        /\ \A r \in ResidentIds : ~isHome[r]
        /\ \A w \in WifiIds : ~hasResidents[w] /\ ~sinkWifi[w]
        /\ ~sinkGlobal

C34_Witness ==
    /\ ~useSiteManagerApi
    /\ ev.ended = "completed"
    /\ ev.clientsFailed
    /\ devices[1].lastSeen > 0
    /\ ~sinkGlobal

\* C35: with the Site Manager API a Device with minTrafficAmount > 0 is
\* offline with trafficBytes = 0 in every reachable state.
C35_CloudThresholdedDeviceNeverOnline ==
    useSiteManagerApi =>
        \A d \in DeviceIds :
            NeedsTraffic(DeviceCfgs[d]) =>
                ~devices[d].isOnline /\ devices[d].trafficBytes = 0

C35_Witness ==
    /\ useSiteManagerApi
    /\ NeedsTraffic(DeviceCfgs[2])
    /\ devices[2].lastSeen > 0
    /\ devices[2].currentAccessPoint = ApOffice
    /\ ~devices[2].isOnline

-----------------------------------------------------------------------------
(* Claims checked under SpecEdge *)

\* No refresh() is executing.
NoCycleRuns == \A c \in CycleIds : cycles[c].pc = "idle"

\* C32: whenever no refresh cycle is executing, every Resident's isHome equals
\* (some device of the Resident is online), also after a cycle that an
\* exception raised inside the device loop has abandoned.
C32_IdleIsHomeIffSomeDeviceOnline ==
    NoCycleRuns =>
        \A r \in ResidentIds :
            isHome[r] <=> \E d \in DeviceIds :
                             DeviceCfgs[d].owner = r /\ devices[d].isOnline

\* The client list of the cycle `cyc` reports device d as connected to the
\* access point whose MAC Location w has after the step.
ReportsAt(cyc, d, w) ==
    LET k == FindClient(DeviceCfgs[d], cyc.clients)
    IN /\ k # 0
       /\ Truthy(wifiMac'[w])
       /\ Or4(cyc.clients[k].ap_mac, cyc.clients[k].sw_mac,
              cyc.clients[k].uplink_mac, cyc.clients[k].access_point_mac)
             = wifiMac'[w]

\* After the step device d is in the transient reset state of cycle c, which
\* awaits the traffic sample of d, and the traffic last seen for d meets its
\* threshold: the last update of d had left it online.
InTransientReset(c, d) ==
    /\ cycles'[c].pc = "traffic"
    /\ cycles'[c].at = d
    /\ ~devices'[d].isOnline
    /\ devices'[d].currentAccessPoint = Undefined
    /\ devices'[d].trafficBytes >= 1024 * DeviceCfgs[d].minTrafficAmount

\* C31: a cycle that completes while another cycle holds a device in its
\* transient reset state never sets the sink of a Location to unoccupied, nor
\* the global sink, when the client lists of both cycles report the device as
\* connected at that Location.
C31_NoSinkClearedByTransientReset ==
    [][\A c \in CycleIds :
          Completes(c) =>
              \A c2 \in CycleIds \ {c}, d \in DeviceIds, w \in WifiIds :
                  ( /\ InTransientReset(c2, d)
                    /\ ReportsAt(cycles[c], d, w)
                    /\ ReportsAt(cycles[c2], d, w) )
                  => /\ sinkWifi[w] => sinkWifi'[w]
                     /\ sinkGlobal => sinkGlobal']_vars

\* The records of `clients` that match device d, and the first of them in
\* list order.
MatchesOf(d, clients) ==
    { k \in 1..Len(clients) : matchesClient(DeviceCfgs[d], clients[k]) }

IsFirstMatch(d, clients, k) ==
    /\ k \in MatchesOf(d, clients)
    /\ \A j \in 1..(k - 1) : j \notin MatchesOf(d, clients)

\* The access point a client record associates its client with.
AccessPointOf(client) ==
    Or4(client.ap_mac, client.sw_mac, client.uplink_mac,
        client.access_point_mac)

\* The access-point records that match Location w as it stands.
ApMatchesOf(w, accessPoints) ==
    { k \in 1..Len(accessPoints) :
         matchesAccessPoint([WifiPoints[w] EXCEPT !.mac = wifiMac[w]],
                            accessPoints[k]) }

\* Cycle c takes a step from which it goes on (it is not abandoned).
GoesOn(c) ==
    /\ cycles'[c] # cycles[c]
    /\ ev'.ended # "abandoned"

\* C39: a Device is updated from the first client record of the cycle's list
\* that matches it, also when several match: the record whose MAC the
\* traffic sample is asked for is that first record, and currentAccessPoint
\* is that record's access point; and a Location's MAC is set from the first
\* access-point record that matches the Location.
C39_FirstMatchingRecordIsUsed ==
    /\ [](\A c \in CycleIds :
             cycles[c].pc = "traffic" =>
                 \E k \in 1..Len(cycles[c].clients) :
                     /\ IsFirstMatch(cycles[c].at, cycles[c].clients, k)
                     /\ cycles[c].match = cycles[c].clients[k])
    /\ [][\A c \in CycleIds :
             /\ (cycles[c].pc = "traffic" /\ GoesOn(c)) =>
                   \E k \in 1..Len(cycles[c].clients) :
                       /\ IsFirstMatch(cycles[c].at, cycles[c].clients, k)
                       /\ devices'[cycles[c].at].currentAccessPoint
                             = AccessPointOf(cycles[c].clients[k])
             /\ (cycles[c].pc = "getNetworkDevices" /\ GoesOn(c)) =>
                   \A d \in DeviceIds :
                       ( /\ ~(NeedsTraffic(DeviceCfgs[d]) /\ ~useSiteManagerApi)
                         /\ cycles'[c].pc = "traffic" => d < cycles'[c].at
                         /\ MatchesOf(d, cycles[c].clients) # {} )
                       => \E k \in 1..Len(cycles[c].clients) :
                             /\ IsFirstMatch(d, cycles[c].clients, k)
                             /\ devices'[d].currentAccessPoint
                                   = AccessPointOf(cycles[c].clients[k])
             /\ Completes(c) =>
                   \A w \in WifiIds :
                       LET hits == ApMatchesOf(w, cycles[c].accessPoints)
                       IN hits # {} =>
                             \E k \in hits :
                                 /\ \A j \in hits : k <= j
                                 /\ wifiMac'[w] = cycles[c].accessPoints[k].mac
       ]_vars

C39_Witness ==
    \E c \in CycleIds :
        /\ cycles[c].pc = "traffic"
        /\ cycles[c].at = 3
        /\ Cardinality(MatchesOf(1, cycles[c].clients)) > 1
        /\ Cardinality(MatchesOf(2, cycles[c].clients)) > 1
        /\ Cardinality(ApMatchesOf(2, cycles[c].accessPoints)) > 1
        /\ devices[1].currentAccessPoint = AccessPointOf(cPhone)
        /\ AccessPointOf(cPhone) # AccessPointOf(cPhone2)
        /\ devices[2].currentAccessPoint = AccessPointOf(cLaptop)
        /\ AccessPointOf(cLaptop) # AccessPointOf(cLaptop2)
        /\ wifiMac[2] = ApOffice

=============================================================================
